---- MODULE Spec2Model ----
(***************************************************************************)
(* Translation-Gateway: the dual-backend (Cloud) orchestrator.             *)
(*                                                                         *)
(* CloudTranslator.handle_request is run by one thread per request, and    *)
(* CloudTranslator._background_check_primary_api by one probe thread.      *)
(* Every statement of handle_request that touches shared state             *)
(* (current_api, api_lock, translation_history, is_first_success) is one   *)
(* step, labelled with its line in cloud_translator.py, so that the        *)
(* threads interleave as the interpreter lets them.  A backend call is     *)
(* one step whose outcome (a response text or an error) is chosen by the   *)
(* environment; a thread whose pc is at a call line has the call in        *)
(* flight.                                                                 *)
(*                                                                         *)
(* A text is a sequence of characters; a character is an integer: the      *)
(* separator token, CR, LF, space, or a word character (>= 10).            *)
(***************************************************************************)
EXTENDS Integers, Sequences, FiniteSets, TLC

\* ---------------------------------------------------------------- bounds
NumRequests == 2        \* request threads (one request each)
MaxSegs == 3            \* segments in a model response
MaxLen == 5             \* characters of a text handed to the segment codec alone
MaxRendered == 2        \* segments of a well-formed text handed to the codec alone

\* ------------------------------------------------------------ characters
SAFE_SEPARATOR == 0     \* Config.SAFE_SEPARATOR, one token
CR == 1
LF == 2
SP == 3

IsSpace(c) == c \in {CR, LF, SP}

Requests == 1..NumRequests

\* The i-th word of the text endpoint b returns to request r (i = 0: the
\* word the client posted); the texts of the two endpoints differ.
Word(b, r, i) == 100 * r + (IF b = "SECONDARY" THEN 50 ELSE 0) + i

\* ------------------------------------------------------- string helpers
RECURSIVE LStrip(_)
LStrip(s) == IF s # <<>> /\ IsSpace(Head(s)) THEN LStrip(Tail(s)) ELSE s

RECURSIVE RStrip(_)
RStrip(s) ==
    IF s # <<>> /\ IsSpace(s[Len(s)]) THEN RStrip(SubSeq(s, 1, Len(s) - 1)) ELSE s

\* str.strip()
Strip(s) == RStrip(LStrip(s))

\* str.split(sep) for the one-token separator: the pieces, empty ones included
RECURSIVE SplitFrom(_, _, _)
SplitFrom(s, cur, acc) ==
    IF s = <<>> THEN Append(acc, cur)
    ELSE IF Head(s) = SAFE_SEPARATOR THEN SplitFrom(Tail(s), <<>>, Append(acc, cur))
    ELSE SplitFrom(Tail(s), Append(cur, Head(s)), acc)

Split(s) == SplitFrom(s, <<>>, <<>>)

RECURSIVE StripNonEmpty(_)
StripNonEmpty(ps) ==
    IF ps = <<>> THEN <<>>
    ELSE IF Strip(Head(ps)) # <<>> THEN <<Strip(Head(ps))>> \o StripNonEmpty(Tail(ps))
    ELSE StripNonEmpty(Tail(ps))

\* Mutant: the non-empty pieces are kept untrimmed
Segments_Untrimmed(text) == SelectSeq(Split(text), LAMBDA p : Strip(p) # <<>>)

\* [s.strip() for s in text.split(sep) if s.strip()]
Segments(text) == StripNonEmpty(Split(text))

\* list[-2:]
LastTwo(l) == IF Len(l) > 2 THEN SubSeq(l, Len(l) - 1, Len(l)) ELSE l

\* ------------------------------------------------------ backend responses
\* The raw completion content a backend returns to request r when it keeps
\* n segments: separator lines and LF line ends, as the prompt asks for.
RECURSIVE RawBody(_, _, _, _)
RawBody(b, r, i, n) ==
    IF i > n THEN <<>>
    ELSE <<Word(b, r, i), LF, SAFE_SEPARATOR, LF>> \o RawBody(b, r, i + 1, n)

RawContent(b, r, n) ==
    IF n = 0 THEN <<SP>> ELSE <<SP, SAFE_SEPARATOR, LF>> \o RawBody(b, r, 1, n)

\* A JSON object is a function from the keys it holds; {} holds none
EmptyObject == [k \in {} |-> k]

\* dict.get(key, default)
Get(object, key, default) == IF key \in DOMAIN object THEN object[key] ELSE default

\* The 2xx bodies without a completion text: no choices field, an empty
\* choices list, a choice without message, a message without content, an
\* empty content
EmptyBodies ==
    {[id |-> "x"],
     [choices |-> <<>>],
     [choices |-> <<[index |-> 0]>>],
     [choices |-> <<[message |-> [role |-> "assistant"]]>>],
     [choices |-> <<[message |-> [content |-> <<>>]]>>]}

\* The 2xx bodies endpoint b may return to request r
Bodies(b, r) ==
    {[choices |-> <<[message |-> [content |-> RawContent(b, r, n)]]>>] : n \in 0..MaxSegs}
        \cup EmptyBodies

\* api_response.get('choices', [{}])[0] raises IndexError on an empty list
IndexRaises(api_response) == Len(Get(api_response, "choices", <<EmptyObject>>)) = 0

\* api_response.get('choices', [{}])[0].get('message', {}).get('content', '')
ContentOf(api_response) ==
    Get(Get(Get(api_response, "choices", <<EmptyObject>>)[1], "message", EmptyObject),
        "content", <<>>)

\* html.unescape(content).strip(); the model's texts hold no HTML entity
ProcessResponse(content) == Strip(content)

\* ------------------------------------------------------- segment codec
\* text.replace('\n', '\r\n')
RECURSIVE ReplaceLF(_)
ReplaceLF(s) ==
    IF s = <<>> THEN <<>>
    ELSE IF Head(s) = LF THEN <<CR, LF>> \o ReplaceLF(Tail(s))
    ELSE <<Head(s)>> \o ReplaceLF(Tail(s))

\* text.replace('\r\r\n', '\r\n'): left to right, no rescan of what was written
RECURSIVE ReplaceCRCRLF(_)
ReplaceCRCRLF(s) ==
    IF s = <<>> THEN <<>>
    ELSE IF Len(s) >= 3 /\ SubSeq(s, 1, 3) = <<CR, CR, LF>>
         THEN <<CR, LF>> \o ReplaceCRCRLF(SubSeq(s, 4, Len(s)))
    ELSE <<Head(s)>> \o ReplaceCRCRLF(Tail(s))

\* the length of the longest prefix of s made of whitespace
RECURSIVE SpaceRun(_)
SpaceRun(s) == IF s # <<>> /\ IsSpace(Head(s)) THEN 1 + SpaceRun(Tail(s)) ELSE 0

\* the positions i <= n - 1 of s with s[i] = CR and s[i+1] = LF
CRLFAt(s, n) == {i \in 1..(n - 1) : s[i] = CR /\ s[i + 1] = LF}

Max(S) == CHOOSE x \in S : \A y \in S : y <= x
Min(S) == CHOOSE x \in S : \A y \in S : x <= y

Reverse(s) == [i \in 1..Len(s) |-> s[Len(s) + 1 - i]]

\* re.sub(r'^\s*SEP\s*\r\n', '', text): the greedy \s* after the separator
\* backtracks to the last CR LF of the whitespace that follows it
StripLeadingSeparator(text) ==
    LET a == LStrip(text) IN
    IF a = <<>> \/ Head(a) # SAFE_SEPARATOR THEN text
    ELSE LET rest == Tail(a)
             ends == CRLFAt(rest, SpaceRun(rest))
         IN IF ends = {} THEN text
            ELSE SubSeq(rest, Max(ends) + 2, Len(rest))

\* re.sub(r'\r\n\s*SEP\s*$', '', text): the leftmost match starts at the first
\* CR LF of the whitespace that precedes the final separator
StripTrailingSeparator(text) ==
    LET b == RStrip(text) IN
    IF b = <<>> \/ b[Len(b)] # SAFE_SEPARATOR THEN text
    ELSE LET pre == SubSeq(b, 1, Len(b) - 1)
             run == SpaceRun(Reverse(pre))
             first == Len(pre) - run + 1
             starts == {i \in first..(Len(pre) - 1) : pre[i] = CR /\ pre[i + 1] = LF}
         IN IF starts = {} THEN text
            ELSE SubSeq(pre, 1, Min(starts) - 1)

RECURSIVE Join(_)
Join(segs) ==
    IF Len(segs) = 1 THEN Head(segs)
    ELSE Head(segs) \o <<CR, LF, SAFE_SEPARATOR, CR, LF>> \o Join(Tail(segs))

\* Mutant: a text without any separator is taken to hold no segment
ValidateAndFixMortFormat_NeedsSeparator(text) ==
    LET normal == ReplaceCRCRLF(ReplaceLF(text))
        cleaned == StripTrailingSeparator(StripLeadingSeparator(Strip(normal)))
        segments == IF \E i \in 1..Len(text) : text[i] = SAFE_SEPARATOR
                    THEN Segments(cleaned) ELSE <<>>
    IN IF segments = <<>> THEN <<>>
       ELSE <<SAFE_SEPARATOR, CR, LF>> \o Join(segments) \o <<CR, LF>>

\* Mutant: the rendering closes with a separator line
ValidateAndFixMortFormat_ClosingSeparator(text) ==
    LET normal == ReplaceCRCRLF(ReplaceLF(text))
        cleaned == StripTrailingSeparator(StripLeadingSeparator(Strip(normal)))
        segments == Segments(cleaned)
    IN IF segments = <<>> THEN <<>>
       ELSE <<SAFE_SEPARATOR, CR, LF>> \o Join(segments)
                \o <<CR, LF, SAFE_SEPARATOR, CR, LF>>

\* CloudTranslator._validate_and_fix_mort_format
ValidateAndFixMortFormat(text) ==
    LET normal == ReplaceCRCRLF(ReplaceLF(text))
        cleaned == StripTrailingSeparator(StripLeadingSeparator(Strip(normal)))
        segments == Segments(cleaned)
    IN IF segments = <<>> THEN <<>>
       ELSE <<SAFE_SEPARATOR, CR, LF>> \o Join(segments) \o <<CR, LF>>

\* MORTFormatter.validate_and_fix_format: the same rule behind "if not text"
ValidateAndFixFormat(text) ==
    IF text = <<>> THEN <<>> ELSE ValidateAndFixMortFormat(text)

\* the longest prefix of s matching (SEP\s*)*: how many separators, how long
RECURSIVE SeparatorRun(_)
SeparatorRun(s) ==
    IF s # <<>> /\ Head(s) = SAFE_SEPARATOR
    THEN LET w == SpaceRun(Tail(s))
             more == SeparatorRun(SubSeq(s, 2 + w, Len(s)))
         IN [n |-> 1 + more.n, len |-> 1 + w + more.len]
    ELSE [n |-> 0, len |-> 0]

\* re.sub(r'(SEP\s*){2,}', 'SEP\r\n', text): every greedy run of two or more
\* separators, with the whitespace after each, becomes one separator line
RECURSIVE CollapseSeparatorRuns(_)
CollapseSeparatorRuns(s) ==
    IF s = <<>> THEN <<>>
    ELSE IF SeparatorRun(s).n >= 2
         THEN <<SAFE_SEPARATOR, CR, LF>>
                  \o CollapseSeparatorRuns(SubSeq(s, SeparatorRun(s).len + 1, Len(s)))
    ELSE <<Head(s)>> \o CollapseSeparatorRuns(Tail(s))

\* LocalTranslator._validate_and_fix_mort_format
LocalValidateAndFixMortFormat(text) ==
    LET normal == ReplaceCRCRLF(ReplaceLF(text))
        cleaned == CollapseSeparatorRuns(Strip(normal))
        segments == Segments(cleaned)
    IN IF segments = <<>> THEN <<>>
       ELSE <<SAFE_SEPARATOR, CR, LF>> \o Join(segments) \o <<CR, LF>>

\* The three repair rules of the repository
Rules == {"cloud", "formatter", "local"}

Repair(rule, text) ==
    CASE rule = "cloud" -> ValidateAndFixMortFormat(text)
      [] rule = "formatter" -> ValidateAndFixFormat(text)
      [] rule = "local" -> LocalValidateAndFixMortFormat(text)


\* ------------------------------------------- single-backend text shaping
\* Further tokens of a text in single-backend mode
TILDE_AT == 4            \* the marker "~@"
AT_TILDE == 5            \* the marker "@~"
PREVIOUS_CONTEXT == 6    \* the tag "Previous Context:"
ARTICLE == 7             \* one of the words the / a / an

NoChar == 0 - 1

\* the character at position i of s, NoChar outside s
At(s, i) == IF i >= 1 /\ i <= Len(s) THEN s[i] ELSE NoChar

\* \w: a letter or a character of an article
IsWordChar(c) == c >= 10 \/ c = ARTICLE

\* the length of \r?\n at position i of s, 0 if it does not match
NewlineAt(s, i) ==
    IF At(s, i) = LF THEN 1
    ELSE IF At(s, i) = CR /\ At(s, i + 1) = LF THEN 2
    ELSE 0

\* the length of (\r?\n){1,2} at position i of s, greedy, 0 if it does not match
NewlinesAt(s, i) ==
    IF NewlineAt(s, i) = 0 THEN 0
    ELSE NewlineAt(s, i) + NewlineAt(s, i + NewlineAt(s, i))

\* the lengths \r?\n{1,2} can take at position i of s
BreakLengthsAt(s, i) ==
    {x[1] + x[2] : x \in {y \in {0, 1} \X {1, 2} :
                            /\ y[1] = 1 => At(s, i) = CR
                            /\ \A j \in 0..(y[2] - 1) : At(s, i + y[1] + j) = LF}}

\* the lookahead (?=\r?\n{1,2}//////\r?\n{1,2}|$) at position i of s
ArticleLookahead(s, i) ==
    \/ i > Len(s)
    \/ i = Len(s) /\ s[i] = LF
    \/ \E k \in BreakLengthsAt(s, i) :
          /\ At(s, i + k) = SAFE_SEPARATOR
          /\ BreakLengthsAt(s, i + k + 1) # {}

\* the end (exclusive) of the match of \s*\b(the|a|an)\b\s*(?=...) that starts
\* at position i of s, 0 if there is none; the trailing \s* is greedy and
\* gives back whitespace until the lookahead holds
ArticleMatchEnd(s, i) ==
    LET a == i + SpaceRun(SubSeq(s, i, Len(s)))
        w == SpaceRun(SubSeq(s, a + 1, Len(s)))
        ends == {a + 1 + k : k \in {j \in 0..w : ArticleLookahead(s, a + 1 + j)}}
    IN IF /\ At(s, a) = ARTICLE
          /\ ~IsWordChar(At(s, a - 1))
          /\ ~IsWordChar(At(s, a + 1))
          /\ ends # {}
       THEN Max(ends) ELSE 0

RECURSIVE RemoveArticlesFrom(_, _)
RemoveArticlesFrom(s, i) ==
    IF i > Len(s) THEN <<>>
    ELSE IF ArticleMatchEnd(s, i) > 0
         THEN RemoveArticlesFrom(s, ArticleMatchEnd(s, i))
    ELSE <<s[i]>> \o RemoveArticlesFrom(s, i + 1)

\* LocalTranslator._process_problematic_articles
ProcessProblematicArticles(text, target) ==
    IF target = "en" THEN text ELSE RemoveArticlesFrom(text, 1)

\* the end (exclusive) of the match of (\r?\n){1,2}SEP(\r?\n){1,2} that starts
\* at position i of s, 0 if there is none
BoundaryMatchEnd(s, i) ==
    LET sep == i + NewlinesAt(s, i)
        after == NewlinesAt(s, sep + 1)
    IN IF NewlinesAt(s, i) > 0 /\ At(s, sep) = SAFE_SEPARATOR /\ after > 0
       THEN sep + 1 + after ELSE 0

RECURSIVE InjectFrom(_, _)
InjectFrom(s, i) ==
    IF i > Len(s) THEN <<>>
    ELSE IF BoundaryMatchEnd(s, i) > 0
         THEN <<TILDE_AT, CR, LF, CR, LF, SAFE_SEPARATOR, CR, LF, AT_TILDE>>
                  \o InjectFrom(s, BoundaryMatchEnd(s, i))
    ELSE <<s[i]>> \o InjectFrom(s, i + 1)

\* LocalTranslator._inject_separators
InjectSeparators(text) == Strip(InjectFrom(text, 1))

\* str.lstrip(SEP + "\r\n"): leading separator characters, CR and LF go
RECURSIVE LStripSeparatorLines(_)
LStripSeparatorLines(s) ==
    IF s # <<>> /\ Head(s) \in {SAFE_SEPARATOR, CR, LF}
    THEN LStripSeparatorLines(Tail(s)) ELSE s

\* .replace('~@', '').replace('@~', '')
RemoveMarkers(s) == SelectSeq(s, LAMBDA c : c \notin {TILDE_AT, AT_TILDE})

\* lines 116-119: the text sent for translation, closed with "~@"
InjectedText(processed_text, context_text) ==
    LET injected == InjectSeparators(processed_text)
        stripped == Strip(injected)
    IN (IF /\ context_text # <<>>
           /\ Len(stripped) >= 3
           /\ SubSeq(stripped, 1, 3) = <<SAFE_SEPARATOR, CR, LF>>
        THEN Strip(LStripSeparatorLines(stripped))
        ELSE injected) \o <<TILDE_AT>>

\* line 122: injected_text.split(SEP)[-1] without markers, trimmed
LastSourceSegment(injected_text) ==
    LET pieces == Split(injected_text) IN
    Strip(RemoveMarkers(pieces[Len(pieces)]))

\* lines 141-144: what follows the first "~@" of the model output, trimmed
\* (the whole output if it holds no "~@")
RECURSIVE AfterFirstMarker(_, _)
AfterFirstMarker(s, whole) ==
    IF s = <<>> THEN whole
    ELSE IF Head(s) = TILDE_AT THEN Strip(Tail(s))
    ELSE AfterFirstMarker(Tail(s), whole)

\* the position of the first "@~" of s at or after position i, 0 if none
RECURSIVE NextAtTilde(_, _)
NextAtTilde(s, i) ==
    IF i > Len(s) THEN 0
    ELSE IF s[i] = AT_TILDE THEN i
    ELSE NextAtTilde(s, i + 1)

\* re.sub(r'~@.*?@~', '\r\nSEP\r\n', text, flags=re.DOTALL)
RECURSIVE ReplaceMarkerSpans(_, _)
ReplaceMarkerSpans(s, i) ==
    IF i > Len(s) THEN <<>>
    ELSE IF s[i] = TILDE_AT /\ NextAtTilde(s, i + 1) > 0
         THEN <<CR, LF, SAFE_SEPARATOR, CR, LF>>
                  \o ReplaceMarkerSpans(s, NextAtTilde(s, i + 1) + 1)
    ELSE <<s[i]>> \o ReplaceMarkerSpans(s, i + 1)

\* re.sub(r'~@|@~', '\r\nSEP\r\n', text)
RECURSIVE ReplaceMarkers(_)
ReplaceMarkers(s) ==
    IF s = <<>> THEN <<>>
    ELSE IF Head(s) \in {TILDE_AT, AT_TILDE}
         THEN <<CR, LF, SAFE_SEPARATOR, CR, LF>> \o ReplaceMarkers(Tail(s))
    ELSE <<Head(s)>> \o ReplaceMarkers(Tail(s))

\* re.sub(r' +', ' ', text)
RECURSIVE CollapseSpaces(_)
CollapseSpaces(s) ==
    IF s = <<>> THEN <<>>
    ELSE IF Head(s) = SP /\ Len(s) >= 2 /\ s[2] = SP THEN CollapseSpaces(Tail(s))
    ELSE <<Head(s)>> \o CollapseSpaces(Tail(s))

\* LocalTranslator._clean_and_restore_separators (line 63 removes stray "~"
\* and "@" characters: a text of whole markers holds none after line 62)
CleanAndRestoreSeparators(text) ==
    CollapseSeparatorRuns(Strip(CollapseSpaces(ReplaceMarkers(ReplaceMarkerSpans(text, 1)))))

\* lines 141-147: the text handle_request returns for a model output
LocalFinalText(translated_text, context_text) ==
    LET answer == IF context_text # <<>>
                  THEN AfterFirstMarker(translated_text, translated_text)
                  ELSE translated_text
    IN Strip(LStripSeparatorLines(
           LocalValidateAndFixMortFormat(CleanAndRestoreSeparators(answer))))

\* The HTTP failures _send_request turns into RuntimeError
Errors == {"401", "other"}

\* lines 160-161 and 193-194: the texts _process_response returns for the
\* bodies endpoint b may answer request r with
Completions(b, r) ==
    {ProcessResponse(ContentOf(body)) : body \in {x \in Bodies(b, r) : ~IndexRaises(x)}}

\* lines 160-161 and 193-194: what the try block may raise, the errors of
\* _send_request and the IndexError of _process_response
Raised(b, r) ==
    Errors \cup {"IndexError" : body \in {x \in Bodies(b, r) : IndexRaises(x)}}

\* Every exception a try block of handle_request may catch
Exceptions == Errors \cup {"IndexError"}

\* ------------------------------------------------------------ the threads
Unlocked == 0                       \* api_lock = Lock(), not held
ProbeThread == NumRequests + 1      \* the thread app.py starts for the probe

Backends == {"PRIMARY", "SECONDARY"}

NoMessages == [prepared_for |-> "NONE", context |-> <<>>]

VARIABLES
    primary_api,          \* CloudTranslator.primary_api   (key, model, enable_context)
    secondary_api,        \* CloudTranslator.secondary_api
    current_api,          \* CloudTranslator.current_api
    api_lock,             \* CloudTranslator.api_lock: the thread holding it, or Unlocked
    translation_history,  \* CloudTranslator.translation_history
    is_first_success,     \* CloudTranslator.is_first_success
    pc,                   \* per request thread: the line it is about to execute
    loc,                  \* per request thread: the locals of handle_request
    response,             \* per request thread: the envelope translate_request returns
    probe_pc,             \* the probe thread's position
    obs,                  \* history variables: what each request did (not program state)
    pushed,               \* history variable: the last two segments ever appended
    recovery,             \* history variable: how far the probe's recovery has come
    codec_rule,           \* segment codec on its own: which repair rule is applied
    codec_text,           \* segment codec on its own: the text handed to repair
    codec_out,            \* segment codec on its own: the results of repair, in order
    local_config,         \* LocalTranslator.config   (model, enable_context, ollama host)
    last_source_segment,  \* LocalTranslator.last_source_segment
    is_warmup_done,       \* LocalTranslator.is_warmup_done
    local_is_first_success, \* LocalTranslator.is_first_success
    local_pc,             \* per request thread in single-backend mode: its position
    local_loc             \* per request thread in single-backend mode: its locals

vars == <<primary_api, secondary_api, current_api, api_lock, translation_history,
          is_first_success, pc, loc, response, probe_pc, obs, pushed, recovery,
          codec_rule, codec_text, codec_out,
          local_config, last_source_segment, is_warmup_done, local_is_first_success,
          local_pc, local_loc>>

codec == <<codec_rule, codec_text, codec_out>>

local == <<local_config, last_source_segment, is_warmup_done, local_is_first_success,
           local_pc, local_loc>>

\* LocalTranslator.handle_request: the locals before their assignment
InitLocalLocals ==
    [text_to_translate |-> <<>>, target |-> "", context_text |-> <<>>,
     injected_text |-> <<>>, messages |-> <<>>]

\* LocalTranslator.__init__, the object app.py builds in either mode
LocalIdle ==
    /\ last_source_segment = <<>>
    /\ is_warmup_done = FALSE
    /\ local_is_first_success = FALSE
    /\ local_pc = [r \in Requests |-> "idle"]
    /\ local_loc = [r \in Requests |-> InitLocalLocals]

config == <<primary_api, secondary_api>>

ApiConf(which) == IF which = "PRIMARY" THEN primary_api ELSE secondary_api

InitLocals ==
    [active_api_config |-> "NONE",   \* which configuration object the local names
     api_used_name     |-> "",
     messages          |-> NoMessages,
     e                 |-> "",        \* the exception caught at line 163
     translated_text   |-> <<>>,
     tail              |-> <<>>]      \* the value of translation_history[-2:] at line 221

NoResponse == [result |-> <<>>, errorCode |-> "", errorMessage |-> "", api_used |-> ""]

InitObs ==
    [start    |-> "NONE",    \* the backend the guarded read of line 131 selected
     calls    |-> <<>>,      \* the calls this request made: [to, ok], in order
     raised_on |-> "",       \* the error a raise of lines 199-204 was caused by
     at_failure |-> "NONE",  \* current_api as line 168 read it
     switched |-> FALSE,     \* this request executed line 180
     flipped  |-> FALSE,     \* the probe flipped to PRIMARY after this request's line 180
     at_return |-> "NONE",   \* current_api when the request returned or raised
     posted   |-> <<>>]      \* the text the client posted

Init ==
    /\ primary_api \in [key : {"", "k1"}, model : {"m1"}, enable_context : BOOLEAN]
    /\ secondary_api \in [key : {"", "k2"}, model : {"m2"}, enable_context : BOOLEAN]
    /\ current_api = "PRIMARY"
    /\ api_lock = Unlocked
    /\ translation_history = <<>>
    /\ is_first_success = FALSE
    /\ pc = [r \in Requests |-> "idle"]
    /\ loc = [r \in Requests |-> InitLocals]
    /\ response = [r \in Requests |-> NoResponse]
    /\ probe_pc = "sleep"
    /\ obs = [r \in Requests |-> InitObs]
    /\ pushed = <<>>
    /\ recovery = "none"
    /\ codec_rule = "none"
    /\ codec_text = <<>>
    /\ codec_out = <<>>
    /\ local_config = [model |-> "m0", enable_context |-> FALSE, ollama |-> TRUE]
    /\ LocalIdle

\* ----------------------------------------------------- message building
\* CloudTranslator._format_history: the entries of the context block
\* (no entry: no block)
FormatHistory(history) == LastTwo(history)

\* _prepare_messages_primary / _prepare_messages_secondary: each consults the
\* enable_context of its own endpoint
PrepareMessages(which, history) ==
    [prepared_for |-> which,
     context |-> IF ApiConf(which).enable_context THEN FormatHistory(history) ELSE <<>>]

\* The texts a client may post: missing or empty, blank, one word
InputTexts(r) == {<<>>, <<SP>>, <<SP, Word("PRIMARY", r, 0)>>}

\* ------------------------------------------------- request thread steps
\* A raise that leaves handle_request: translate_request's except clause
\* builds the failure envelope (translation.py 76-83)
Raise(r, message, cause) ==
    /\ response' = [response EXCEPT ![r] =
           [result |-> <<>>, errorCode |-> "500", errorMessage |-> message, api_used |-> ""]]
    /\ pc' = [pc EXCEPT ![r] = "done"]
    /\ loc' = [loc EXCEPT ![r] = InitLocals]
    /\ obs' = [obs EXCEPT ![r].at_return = current_api, ![r].at_failure = current_api,
                          ![r].raised_on = cause]

\* Mutant: the posted text is handed to handle_request without validation
TranslateRequest_ForwardsBlank(r) ==
    /\ pc[r] = "idle"
    /\ \E text \in InputTexts(r) : obs' = [obs EXCEPT ![r].posted = text]
    /\ pc' = [pc EXCEPT ![r] = "L130"]
    /\ UNCHANGED <<config, codec, local, current_api, api_lock, translation_history, is_first_success,
                   loc, response, probe_pc, pushed, recovery>>

\* translation.py 26-40: validate the posted text, then enter handle_request
TranslateRequest(r) ==
    /\ pc[r] = "idle"
    /\ \E text \in InputTexts(r) :
         /\ IF Strip(text) = <<>>
            THEN /\ response' = [response EXCEPT ![r] =
                       [result |-> <<>>, errorCode |-> "400",
                        errorMessage |-> "No text to translate.", api_used |-> ""]]
                 /\ pc' = [pc EXCEPT ![r] = "done"]
            ELSE /\ pc' = [pc EXCEPT ![r] = "L130"]
                 /\ UNCHANGED response
         /\ obs' = [obs EXCEPT ![r].posted = text]
    /\ UNCHANGED <<config, codec, local, current_api, api_lock, translation_history, is_first_success,
                   loc, probe_pc, pushed, recovery>>

\* line 130: with self.api_lock (acquire)
AcquireForRead(r) ==
    /\ pc[r] = "L130"
    /\ api_lock = Unlocked
    /\ api_lock' = r
    /\ pc' = [pc EXCEPT ![r] = "L131"]
    /\ UNCHANGED <<config, codec, local, current_api, translation_history, is_first_success,
                   loc, response, probe_pc, obs, pushed, recovery>>

\* Mutant: the request always selects the primary configuration
ReadActive_AlwaysPrimary(r) ==
    /\ pc[r] = "L131"
    /\ loc' = [loc EXCEPT ![r].active_api_config = "PRIMARY",
                          ![r].api_used_name = primary_api.model]
    /\ api_lock' = Unlocked
    /\ obs' = [obs EXCEPT ![r].start = current_api]
    /\ pc' = [pc EXCEPT ![r] = "L135"]
    /\ UNCHANGED <<config, codec, local, current_api, translation_history, is_first_success,
                   response, probe_pc, pushed, recovery>>

\* Mutant: the guarded block of line 130 extends over the rest of the request
ReadActive_KeepsLock(r) ==
    /\ pc[r] = "L131"
    /\ loc' = [loc EXCEPT ![r].active_api_config = current_api,
                          ![r].api_used_name = ApiConf(current_api).model]
    /\ obs' = [obs EXCEPT ![r].start = current_api]
    /\ pc' = [pc EXCEPT ![r] = "L135"]
    /\ UNCHANGED <<config, codec, local, current_api, api_lock, translation_history,
                   is_first_success, response, probe_pc, pushed, recovery>>

\* line 131: active_api_config = primary or secondary by current_api; release
ReadActive(r) ==
    /\ pc[r] = "L131"
    /\ loc' = [loc EXCEPT ![r].active_api_config = current_api,
                          ![r].api_used_name = ApiConf(current_api).model]
    /\ api_lock' = Unlocked
    /\ obs' = [obs EXCEPT ![r].start = current_api]
    /\ pc' = [pc EXCEPT ![r] = "L135"]
    /\ UNCHANGED <<config, codec, local, current_api, translation_history, is_first_success,
                   response, probe_pc, pushed, recovery>>

\* lines 133-136: reset the history when the selected endpoint has context off
ResetHistory(r) ==
    /\ pc[r] = "L135"
    /\ IF ApiConf(loc[r].active_api_config).enable_context
       THEN UNCHANGED translation_history
       ELSE translation_history' = <<>>
    /\ pc' = [pc EXCEPT ![r] = "L150"]
    /\ UNCHANGED <<config, codec, local, current_api, api_lock, is_first_success,
                   loc, response, probe_pc, obs, pushed, recovery>>

\* line 150: the branch on self.current_api, read without the lock
ChooseMessages(r) ==
    /\ pc[r] = "L150"
    /\ loc' = [loc EXCEPT ![r].messages = [NoMessages EXCEPT !.prepared_for = current_api],
                          ![r].api_used_name = ApiConf(current_api).model]
    /\ pc' = [pc EXCEPT ![r] = "L151"]
    /\ UNCHANGED <<config, codec, local, current_api, api_lock, translation_history, is_first_success,
                   response, probe_pc, obs, pushed, recovery>>

\* lines 151/154: build the messages of the chosen branch from the history
BuildMessages(r) ==
    /\ pc[r] = "L151"
    /\ loc' = [loc EXCEPT ![r].messages =
                   PrepareMessages(loc[r].messages.prepared_for, translation_history)]
    /\ pc' = [pc EXCEPT ![r] = "L160"]
    /\ UNCHANGED <<config, codec, local, current_api, api_lock, translation_history, is_first_success,
                   response, probe_pc, obs, pushed, recovery>>

\* lines 160-161: the call to the endpoint selected at line 131 returns
SendRequest(r) ==
    /\ pc[r] = "L160"
    /\ \/ \E text \in Completions(loc[r].active_api_config, r) :
            /\ loc' = [loc EXCEPT ![r].translated_text = text,
                                  ![r].messages = NoMessages]
            /\ obs' = [obs EXCEPT ![r].calls =
                           Append(@, [to |-> loc[r].active_api_config, ok |-> TRUE])]
            /\ pc' = [pc EXCEPT ![r] = "L212"]
       \/ \E err \in Raised(loc[r].active_api_config, r) :
            /\ loc' = [loc EXCEPT ![r].e = err, ![r].messages = NoMessages]
            /\ obs' = [obs EXCEPT ![r].calls =
                           Append(@, [to |-> loc[r].active_api_config, ok |-> FALSE])]
            /\ pc' = [pc EXCEPT ![r] = "L165"]
    /\ UNCHANGED <<config, codec, local, current_api, api_lock, translation_history, is_first_success,
                   response, probe_pc, pushed, recovery>>

\* Mutant: the switch is attempted whether or not the secondary has a key
HandleFailure_NoKeyCheck(r) ==
    /\ pc[r] = "L165"
    /\ is_first_success' = FALSE
    /\ IF current_api = "PRIMARY"
       THEN /\ pc' = [pc EXCEPT ![r] = "L179"]
            /\ loc' = [loc EXCEPT ![r].e = ""]
            /\ obs' = [obs EXCEPT ![r].at_failure = current_api]
            /\ UNCHANGED response
       ELSE IF loc[r].e = "401"
            THEN Raise(r, "FATAL FAILURE: Invalid API key for backup model.", loc[r].e)
            ELSE Raise(r, "SECONDARY API ERROR", loc[r].e)
    /\ UNCHANGED <<config, codec, local, current_api, api_lock, translation_history, probe_pc, pushed, recovery>>

\* Mutant: a 401 while SECONDARY is active raises the generic secondary error
HandleFailure_NoAuthCase(r) ==
    /\ pc[r] = "L165"
    /\ is_first_success' = FALSE
    /\ IF current_api = "PRIMARY"
       THEN IF secondary_api.key = ""
            THEN Raise(r, "Primary API unavailable, and backup API not configured", "")
            ELSE /\ pc' = [pc EXCEPT ![r] = "L179"]
                 /\ loc' = [loc EXCEPT ![r].e = ""]
                 /\ obs' = [obs EXCEPT ![r].at_failure = current_api]
                 /\ UNCHANGED response
       ELSE Raise(r, "SECONDARY API ERROR", loc[r].e)
    /\ UNCHANGED <<config, codec, local, current_api, api_lock, translation_history, probe_pc, pushed, recovery>>

\* Mutant: a failure while SECONDARY is active is swallowed and the request
\* goes on with the empty translated text
HandleFailure_SwallowsError(r) ==
    /\ pc[r] = "L165"
    /\ is_first_success' = FALSE
    /\ IF current_api = "PRIMARY"
       THEN IF secondary_api.key = ""
            THEN Raise(r, "Primary API unavailable, and backup API not configured", "")
            ELSE /\ pc' = [pc EXCEPT ![r] = "L179"]
                 /\ loc' = [loc EXCEPT ![r].e = ""]
                 /\ obs' = [obs EXCEPT ![r].at_failure = current_api]
                 /\ UNCHANGED response
       ELSE /\ pc' = [pc EXCEPT ![r] = "L212"]
            /\ loc' = [loc EXCEPT ![r].e = ""]
            /\ obs' = [obs EXCEPT ![r].at_failure = current_api]
            /\ UNCHANGED response
    /\ UNCHANGED <<config, codec, local, current_api, api_lock, translation_history, probe_pc, pushed, recovery>>

\* lines 163-177 and 199-204: the except clause up to the switch
HandleFailure(r) ==
    /\ pc[r] = "L165"
    /\ is_first_success' = FALSE
    /\ IF current_api = "PRIMARY"
       THEN IF secondary_api.key = ""
            THEN Raise(r, "Primary API unavailable, and backup API not configured", "")
            ELSE /\ pc' = [pc EXCEPT ![r] = "L179"]
                 /\ loc' = [loc EXCEPT ![r].e = ""]
                 /\ obs' = [obs EXCEPT ![r].at_failure = current_api]
                 /\ UNCHANGED response
       ELSE IF loc[r].e = "401"
            THEN Raise(r, "FATAL FAILURE: Invalid API key for backup model.", loc[r].e)
            ELSE Raise(r, "SECONDARY API ERROR", loc[r].e)
    /\ UNCHANGED <<config, codec, local, current_api, api_lock, translation_history, probe_pc, pushed, recovery>>

\* line 179: with self.api_lock (acquire)
AcquireForSwitch(r) ==
    /\ pc[r] = "L179"
    /\ api_lock = Unlocked
    /\ api_lock' = r
    /\ pc' = [pc EXCEPT ![r] = "L180"]
    /\ UNCHANGED <<config, codec, local, current_api, translation_history, is_first_success,
                   loc, response, probe_pc, obs, pushed, recovery>>

\* Mutant: the guarded block releases the lock without the assignment
SwitchToSecondary_NoAssignment(r) ==
    /\ pc[r] = "L180"
    /\ api_lock' = Unlocked
    /\ obs' = [obs EXCEPT ![r].switched = TRUE]
    /\ pc' = [pc EXCEPT ![r] = "L184"]
    /\ UNCHANGED <<config, codec, local, current_api, translation_history, is_first_success,
                   loc, response, probe_pc, pushed, recovery>>

\* Mutant: the switch acquires the lock by hand and never releases it
SwitchToSecondary_KeepsLock(r) ==
    /\ pc[r] = "L180"
    /\ current_api' = "SECONDARY"
    /\ obs' = [obs EXCEPT ![r].switched = TRUE]
    /\ recovery' = IF recovery = "flipped" THEN "none" ELSE recovery
    /\ pc' = [pc EXCEPT ![r] = "L184"]
    /\ UNCHANGED <<config, codec, local, api_lock, translation_history, is_first_success,
                   loc, response, probe_pc, pushed>>

\* line 180: self.current_api = "SECONDARY"; release
SwitchToSecondary(r) ==
    /\ pc[r] = "L180"
    /\ current_api' = "SECONDARY"
    /\ api_lock' = Unlocked
    /\ obs' = [obs EXCEPT ![r].switched = TRUE]
    /\ recovery' = IF recovery = "flipped" THEN "none" ELSE recovery
    /\ pc' = [pc EXCEPT ![r] = "L184"]
    /\ UNCHANGED <<config, codec, local, translation_history, is_first_success,
                   loc, response, probe_pc, pushed>>

\* Mutant: the retry resets the history whatever the secondary's context flag
RetryResetHistory_AlwaysClears(r) ==
    /\ pc[r] = "L184"
    /\ loc' = [loc EXCEPT ![r].active_api_config = "SECONDARY"]
    /\ translation_history' = <<>>
    /\ pc' = [pc EXCEPT ![r] = "L192"]
    /\ UNCHANGED <<config, codec, local, current_api, api_lock, is_first_success,
                   response, probe_pc, obs, pushed, recovery>>

\* lines 184-189: the retry targets the secondary; reset the history if it has context off
RetryResetHistory(r) ==
    /\ pc[r] = "L184"
    /\ loc' = [loc EXCEPT ![r].active_api_config = "SECONDARY"]
    /\ IF secondary_api.enable_context
       THEN UNCHANGED translation_history
       ELSE translation_history' = <<>>
    /\ pc' = [pc EXCEPT ![r] = "L192"]
    /\ UNCHANGED <<config, codec, local, current_api, api_lock, is_first_success,
                   response, probe_pc, obs, pushed, recovery>>

\* line 192: messages for the secondary
RetryBuildMessages(r) ==
    /\ pc[r] = "L192"
    /\ loc' = [loc EXCEPT ![r].messages = PrepareMessages("SECONDARY", translation_history)]
    /\ pc' = [pc EXCEPT ![r] = "L193"]
    /\ UNCHANGED <<config, codec, local, current_api, api_lock, translation_history, is_first_success,
                   response, probe_pc, obs, pushed, recovery>>

\* Mutant: a failed retry is tried again instead of raised
RetrySendRequest_RetriesAgain(r) ==
    /\ pc[r] = "L193"
    /\ \/ \E text \in Completions("SECONDARY", r) :
            /\ loc' = [loc EXCEPT ![r].translated_text = text,
                                  ![r].api_used_name = secondary_api.model,
                                  ![r].messages = NoMessages]
            /\ obs' = [obs EXCEPT ![r].calls =
                           Append(@, [to |-> "SECONDARY", ok |-> TRUE])]
            /\ pc' = [pc EXCEPT ![r] = "L212"]
       \/ \E err \in Raised("SECONDARY", r) :
            /\ obs' = [obs EXCEPT ![r].calls =
                           Append(@, [to |-> "SECONDARY", ok |-> FALSE])]
            /\ pc' = [pc EXCEPT ![r] = "L192"]
            /\ UNCHANGED loc
    /\ UNCHANGED <<config, codec, local, current_api, api_lock, translation_history, is_first_success,
                   response, probe_pc, pushed, recovery>>

\* Mutant: a failed retry sends the controller back to PRIMARY
RetrySendRequest_FallsBack(r) ==
    /\ pc[r] = "L193"
    /\ \/ \E text \in Completions("SECONDARY", r) :
            /\ loc' = [loc EXCEPT ![r].translated_text = text,
                                  ![r].api_used_name = secondary_api.model,
                                  ![r].messages = NoMessages]
            /\ obs' = [obs EXCEPT ![r].calls =
                           Append(@, [to |-> "SECONDARY", ok |-> TRUE])]
            /\ pc' = [pc EXCEPT ![r] = "L212"]
            /\ UNCHANGED <<response, current_api>>
       \/ \E err \in Raised("SECONDARY", r) :
            /\ response' = [response EXCEPT ![r] =
                   [result |-> <<>>, errorCode |-> "500",
                    errorMessage |-> "ERROR: Backup API is also unavailable.",
                    api_used |-> ""]]
            /\ pc' = [pc EXCEPT ![r] = "done"]
            /\ loc' = [loc EXCEPT ![r] = InitLocals]
            /\ current_api' = "PRIMARY"
            /\ obs' = [obs EXCEPT ![r].calls =
                           Append(@, [to |-> "SECONDARY", ok |-> FALSE]),
                                  ![r].at_return = "PRIMARY"]
    /\ UNCHANGED <<config, codec, local, api_lock, translation_history, is_first_success,
                   probe_pc, pushed, recovery>>

\* lines 193-197: the call to the secondary endpoint returns
RetrySendRequest(r) ==
    /\ pc[r] = "L193"
    /\ \/ \E text \in Completions("SECONDARY", r) :
            /\ loc' = [loc EXCEPT ![r].translated_text = text,
                                  ![r].api_used_name = secondary_api.model,
                                  ![r].messages = NoMessages]
            /\ obs' = [obs EXCEPT ![r].calls =
                           Append(@, [to |-> "SECONDARY", ok |-> TRUE])]
            /\ pc' = [pc EXCEPT ![r] = "L212"]
            /\ UNCHANGED response
       \/ \E err \in Raised("SECONDARY", r) :
            /\ response' = [response EXCEPT ![r] =
                   [result |-> <<>>, errorCode |-> "500",
                    errorMessage |-> "ERROR: Backup API is also unavailable.",
                    api_used |-> ""]]
            /\ pc' = [pc EXCEPT ![r] = "done"]
            /\ loc' = [loc EXCEPT ![r] = InitLocals]
            /\ obs' = [obs EXCEPT ![r].calls =
                           Append(@, [to |-> "SECONDARY", ok |-> FALSE]),
                                  ![r].at_return = current_api]
    /\ UNCHANGED <<config, codec, local, current_api, api_lock, translation_history, is_first_success,
                   probe_pc, pushed, recovery>>

\* Mutant: the update appends to the window without emptying it first
ClearHistory_KeepsHistory(r) ==
    /\ pc[r] = "L212"
    /\ pc' = [pc EXCEPT ![r] =
                 IF ApiConf(loc[r].active_api_config).enable_context THEN "L215" ELSE "L226"]
    /\ UNCHANGED <<config, codec, local, current_api, api_lock, translation_history,
                   is_first_success, loc, response, probe_pc, obs, pushed, recovery>>

\* lines 212-213: with context on, the history is emptied first
ClearHistory(r) ==
    /\ pc[r] = "L212"
    /\ IF ApiConf(loc[r].active_api_config).enable_context
       THEN /\ translation_history' = <<>>
            /\ pc' = [pc EXCEPT ![r] = "L215"]
       ELSE /\ pc' = [pc EXCEPT ![r] = "L226"]
            /\ UNCHANGED translation_history
    /\ UNCHANGED <<config, codec, local, current_api, api_lock, is_first_success,
                   loc, response, probe_pc, obs, pushed, recovery>>

\* lines 215-219: the segments of the translated text are appended
ExtendHistory(r) ==
    /\ pc[r] = "L215"
    /\ LET all_translated_segments == Segments(loc[r].translated_text) IN
       IF all_translated_segments # <<>>
       THEN /\ translation_history' = translation_history \o all_translated_segments
            /\ pushed' = LastTwo(pushed \o all_translated_segments)
            /\ pc' = [pc EXCEPT ![r] = "L220"]
       ELSE /\ pc' = [pc EXCEPT ![r] = "L226"]
            /\ UNCHANGED <<translation_history, pushed>>
    /\ UNCHANGED <<config, codec, local, current_api, api_lock, is_first_success,
                   loc, response, probe_pc, obs, recovery>>

\* line 220: if len(self.translation_history) > 2
CheckHistoryLength(r) ==
    /\ pc[r] = "L220"
    /\ pc' = [pc EXCEPT ![r] = IF Len(translation_history) > 2 THEN "L221" ELSE "L226"]
    /\ UNCHANGED <<config, codec, local, current_api, api_lock, translation_history, is_first_success,
                   loc, response, probe_pc, obs, pushed, recovery>>

\* line 221, right-hand side: self.translation_history[-2:] is evaluated
SliceHistory(r) ==
    /\ pc[r] = "L221"
    /\ loc' = [loc EXCEPT ![r].tail = LastTwo(translation_history)]
    /\ pc' = [pc EXCEPT ![r] = "L221w"]
    /\ UNCHANGED <<config, codec, local, current_api, api_lock, translation_history, is_first_success,
                   response, probe_pc, obs, pushed, recovery>>

\* line 221, assignment: the slice is stored in self.translation_history
StoreHistory(r) ==
    /\ pc[r] = "L221w"
    /\ translation_history' = loc[r].tail
    /\ loc' = [loc EXCEPT ![r].tail = <<>>]
    /\ pc' = [pc EXCEPT ![r] = "L226"]
    /\ UNCHANGED <<config, codec, local, current_api, api_lock, is_first_success,
                   response, probe_pc, obs, pushed, recovery>>

\* Mutant: a request served by the primary restores PRIMARY on its way out
Return_RestoresPrimary(r) ==
    /\ pc[r] = "L226"
    /\ response' = [response EXCEPT ![r] =
           [result |-> Strip(ValidateAndFixMortFormat(loc[r].translated_text)),
            errorCode |-> "0", errorMessage |-> "", api_used |-> loc[r].api_used_name]]
    /\ is_first_success' = TRUE
    /\ current_api' = IF loc[r].active_api_config = "PRIMARY" THEN "PRIMARY" ELSE current_api
    /\ obs' = [obs EXCEPT ![r].at_return = current_api]
    /\ loc' = [loc EXCEPT ![r] = InitLocals]
    /\ pc' = [pc EXCEPT ![r] = "done"]
    /\ UNCHANGED <<config, codec, local, api_lock, translation_history, probe_pc, pushed, recovery>>

\* Mutant: the model output is returned as it came, without repair
Return_Unrepaired(r) ==
    /\ pc[r] = "L226"
    /\ response' = [response EXCEPT ![r] =
           [result |-> loc[r].translated_text,
            errorCode |-> "0", errorMessage |-> "", api_used |-> loc[r].api_used_name]]
    /\ is_first_success' = TRUE
    /\ obs' = [obs EXCEPT ![r].at_return = current_api]
    /\ loc' = [loc EXCEPT ![r] = InitLocals]
    /\ pc' = [pc EXCEPT ![r] = "done"]
    /\ UNCHANGED <<config, codec, local, current_api, api_lock, translation_history, probe_pc, pushed, recovery>>

\* lines 226-227, then translation.py 52-72: repair, return, success envelope
Return(r) ==
    /\ pc[r] = "L226"
    /\ response' = [response EXCEPT ![r] =
           [result |-> Strip(ValidateAndFixMortFormat(loc[r].translated_text)),
            errorCode |-> "0", errorMessage |-> "", api_used |-> loc[r].api_used_name]]
    /\ is_first_success' = TRUE
    /\ obs' = [obs EXCEPT ![r].at_return = current_api]
    /\ loc' = [loc EXCEPT ![r] = InitLocals]
    /\ pc' = [pc EXCEPT ![r] = "done"]
    /\ UNCHANGED <<config, codec, local, current_api, api_lock, translation_history, probe_pc, pushed, recovery>>

\* ---------------------------------------------------- probe thread steps
\* Mutant: the tick goes on to the test call whether or not the primary has a key
ProbeTick_IgnoresMissingKey ==
    /\ probe_pc = "sleep"
    /\ probe_pc' = "L119"
    /\ UNCHANGED <<config, codec, local, current_api, api_lock, translation_history, is_first_success,
                   pc, loc, response, obs, pushed, recovery>>

\* lines 111-115: a tick; without a primary key the probe stops for good
ProbeTick ==
    /\ probe_pc = "sleep"
    /\ probe_pc' = IF primary_api.key = "" THEN "stopped" ELSE "L119"
    /\ UNCHANGED <<config, codec, local, current_api, api_lock, translation_history, is_first_success,
                   pc, loc, response, obs, pushed, recovery>>

\* Mutant: a failed test call ends the probe thread
ProbeSendRequest_StopsOnError ==
    /\ probe_pc = "L119"
    /\ \E ok \in BOOLEAN :
          /\ probe_pc' = IF ok THEN "L121" ELSE "stopped"
          /\ recovery' = IF ok /\ current_api = "SECONDARY" THEN "pending" ELSE recovery
    /\ UNCHANGED <<config, codec, local, current_api, api_lock, translation_history, is_first_success,
                   pc, loc, response, obs, pushed>>

\* lines 118-119, 125-126: the test call returns; an error is swallowed
ProbeSendRequest ==
    /\ probe_pc = "L119"
    /\ \E ok \in BOOLEAN :
          /\ probe_pc' = IF ok THEN "L121" ELSE "sleep"
          /\ recovery' = IF ok /\ current_api = "SECONDARY" THEN "pending" ELSE recovery
    /\ UNCHANGED <<config, codec, local, current_api, api_lock, translation_history, is_first_success,
                   pc, loc, response, obs, pushed>>

\* line 121: with self.api_lock (acquire)
ProbeAcquire ==
    /\ probe_pc = "L121"
    /\ api_lock = Unlocked
    /\ api_lock' = ProbeThread
    /\ probe_pc' = "L122"
    /\ UNCHANGED <<config, codec, local, current_api, translation_history, is_first_success,
                   pc, loc, response, obs, pushed, recovery>>

\* Mutant: the guarded block releases the lock without the assignment
ProbeFlip_NoAssignment ==
    /\ probe_pc = "L122"
    /\ recovery' = IF current_api = "SECONDARY" THEN "flipped" ELSE recovery
    /\ api_lock' = Unlocked
    /\ probe_pc' = "sleep"
    /\ UNCHANGED <<config, codec, local, current_api, obs, translation_history, is_first_success,
                   pc, loc, response, pushed>>

\* lines 122-124: flip back to PRIMARY if SECONDARY; release
ProbeFlip ==
    /\ probe_pc = "L122"
    /\ IF current_api = "SECONDARY"
       THEN /\ current_api' = "PRIMARY"
            /\ obs' = [r \in Requests |->
                         IF obs[r].switched /\ pc[r] # "done"
                         THEN [obs[r] EXCEPT !.flipped = TRUE] ELSE obs[r]]
            /\ recovery' = "flipped"
       ELSE UNCHANGED <<current_api, obs, recovery>>
    /\ api_lock' = Unlocked
    /\ probe_pc' = "sleep"
    /\ UNCHANGED <<config, codec, local, translation_history, is_first_success,
                   pc, loc, response, pushed>>

\* ------------------------------------------------------ the specification
Next ==
    \/ \E r \in Requests :
         \/ TranslateRequest(r)
         \/ AcquireForRead(r)
         \/ ReadActive(r)
         \/ ResetHistory(r)
         \/ ChooseMessages(r)
         \/ BuildMessages(r)
         \/ SendRequest(r)
         \/ HandleFailure(r)
         \/ AcquireForSwitch(r)
         \/ SwitchToSecondary(r)
         \/ RetryResetHistory(r)
         \/ RetryBuildMessages(r)
         \/ RetrySendRequest(r)
         \/ ClearHistory(r)
         \/ ExtendHistory(r)
         \/ CheckHistoryLength(r)
         \/ SliceHistory(r)
         \/ StoreHistory(r)
         \/ Return(r)
    \/ ProbeTick
    \/ ProbeSendRequest
    \/ ProbeAcquire
    \/ ProbeFlip

Spec == Init /\ [][Next]_vars

\* ------------------------------------------------- the segment codec alone
\* The repair rules applied to arbitrary short texts, and to well-formed
\* protocol texts, outside any request.  A text of the program tokenises
\* uniquely into separator tokens and other characters (str.split and re scan
\* left to right), so a sequence over this alphabet stands for a text; a
\* character of the separator that is not part of a whole separator behaves
\* as a letter.
Letters == {10, 11}
Alphabet == {SAFE_SEPARATOR, CR, LF, SP} \cup Letters

TextsOfLen(n) == [1..n -> Alphabet]
Texts == UNION {TextsOfLen(n) : n \in 0..MaxLen}

\* Non-empty trimmed segments: a word, two words, two lines
SegmentPool == {<<10>>, <<11>>, <<10, SP, 11>>, <<10, CR, LF, 11>>}
SegmentLists == UNION {[1..n -> SegmentPool] : n \in 1..MaxRendered}

\* spec.md, section 3 (Segment): SEP CRLF segment1 CRLF SEP CRLF ... CRLF, with
\* the leading and the trailing separator
WellFormed(segs) == <<SAFE_SEPARATOR, CR, LF>> \o Join(segs) \o <<CR, LF, SAFE_SEPARATOR, CR, LF>>
WellFormedTexts == {WellFormed(segs) : segs \in SegmentLists}

gateway == <<primary_api, secondary_api, current_api, api_lock, translation_history,
             is_first_success, pc, loc, response, probe_pc, obs, pushed, recovery>>

CodecInit ==
    /\ codec_rule \in Rules
    /\ codec_text \in Texts \cup WellFormedTexts
    /\ codec_out = <<>>
    /\ local_config = [model |-> "m0", enable_context |-> FALSE, ollama |-> TRUE]
    /\ LocalIdle
    /\ primary_api = [key |-> "k1", model |-> "m1", enable_context |-> TRUE]
    /\ secondary_api = [key |-> "k2", model |-> "m2", enable_context |-> TRUE]
    /\ current_api = "PRIMARY"
    /\ api_lock = Unlocked
    /\ translation_history = <<>>
    /\ is_first_success = FALSE
    /\ pc = [r \in Requests |-> "idle"]
    /\ loc = [r \in Requests |-> InitLocals]
    /\ response = [r \in Requests |-> NoResponse]
    /\ probe_pc = "sleep"
    /\ obs = [r \in Requests |-> InitObs]
    /\ pushed = <<>>
    /\ recovery = "none"

\* repair(text)
RepairText ==
    /\ codec_out = <<>>
    /\ codec_out' = <<Repair(codec_rule, codec_text)>>
    /\ UNCHANGED <<gateway, local, codec_rule, codec_text>>

\* repair(repair(text))
RepairAgain ==
    /\ Len(codec_out) = 1
    /\ codec_out' = Append(codec_out, Repair(codec_rule, codec_out[1]))
    /\ UNCHANGED <<gateway, local, codec_rule, codec_text>>

CodecNext == RepairText \/ RepairAgain

CodecSpec == CodecInit /\ [][CodecNext]_vars

\* --------------------------------------------- requests one after another
\* The same threads when the client posts a request only after the previous
\* one was answered; the probe still runs at any time.
NoneInFlight == \A q \in Requests : pc[q] \in {"idle", "done"}

TranslateNextRequest(r) == NoneInFlight /\ TranslateRequest(r)

SeqNext ==
    \/ \E r \in Requests :
         \/ TranslateNextRequest(r)
         \/ AcquireForRead(r)
         \/ ReadActive(r)
         \/ ResetHistory(r)
         \/ ChooseMessages(r)
         \/ BuildMessages(r)
         \/ SendRequest(r)
         \/ HandleFailure(r)
         \/ AcquireForSwitch(r)
         \/ SwitchToSecondary(r)
         \/ RetryResetHistory(r)
         \/ RetryBuildMessages(r)
         \/ RetrySendRequest(r)
         \/ ClearHistory(r)
         \/ ExtendHistory(r)
         \/ CheckHistoryLength(r)
         \/ SliceHistory(r)
         \/ StoreHistory(r)
         \/ Return(r)
    \/ ProbeTick
    \/ ProbeSendRequest
    \/ ProbeAcquire
    \/ ProbeFlip

SeqSpec == Init /\ [][SeqNext]_vars

\* ------------------------------------------------------------ observations
Done(r) == pc[r] = "done"
Succeeded(r) == Done(r) /\ response[r].errorCode = "0"
Fatal(r) == Done(r) /\ response[r].errorCode = "500"

Calls(r) == obs[r].calls
CallsTo(r, b) == {i \in 1..Len(Calls(r)) : Calls(r)[i].to = b}
Failed(call) == ~call.ok

\* The endpoint whose response became the translated text of a request
Producer(r) == Calls(r)[Len(Calls(r))].to

\* What translate_request returns for the text endpoint b gave with n segments
ResultOf(b, r, n) == Strip(ValidateAndFixMortFormat(ProcessResponse(RawContent(b, r, n))))

\* The request read PRIMARY under the guard, its call to the primary failed,
\* the secondary has a credential, and its call to the secondary succeeded
FailedOver(r) ==
    /\ Done(r)
    /\ obs[r].start = "PRIMARY"
    /\ secondary_api.key # ""
    /\ Len(Calls(r)) >= 2
    /\ Calls(r)[1].to = "PRIMARY" /\ Failed(Calls(r)[1])
    /\ Calls(r)[2].to = "SECONDARY" /\ ~Failed(Calls(r)[2])

FailoverResult(r) ==
    /\ Cardinality(CallsTo(r, "SECONDARY")) = 1
    /\ Len(Calls(r)) = 2
    /\ response[r].errorCode = "0"
    /\ response[r].api_used = secondary_api.model
    /\ \E n \in 0..MaxSegs : response[r].result = ResultOf("SECONDARY", r, n)

\* C1 as stated: a request that read PRIMARY, whose primary call failed and
\* whose secondary call succeeded, made exactly one secondary call, returns the
\* secondary's result, and the failover state is SECONDARY when it returns.
C1_FailoverEndsSecondary ==
    \A r \in Requests :
        FailedOver(r) => FailoverResult(r) /\ obs[r].at_return = "SECONDARY"

\* C1 amended: a request that read PRIMARY, whose primary call failed and
\* whose secondary call succeeded, made exactly one secondary call, returns
\* the secondary's result, and the failover state is SECONDARY when it returns
\* unless the probe flipped it back to PRIMARY after the request's switch.
C1_FailoverUnlessProbeFlipped ==
    \A r \in Requests :
        FailedOver(r) =>
            /\ FailoverResult(r)
            /\ obs[r].switched
            /\ obs[r].at_return = "SECONDARY" \/ obs[r].flipped

C1_Witness ==
    \E r \in Requests :
        /\ FailedOver(r)
        /\ obs[r].at_return = "SECONDARY"
        /\ response[r].result # <<>>

\* C2: when a call fails and the secondary has no credential, the request
\* ends with the fatal "backup not configured" error, has made no call to the
\* secondary, and the failover state is and stays PRIMARY.
C2_NoFallbackFatal ==
    secondary_api.key = "" =>
        /\ current_api = "PRIMARY"
        /\ \A r \in Requests :
              /\ CallsTo(r, "SECONDARY") = {}
              /\ ~obs[r].switched
              /\ pc[r] \notin {"L179", "L180", "L184", "L192", "L193"}
              /\ (Done(r) /\ Calls(r) # <<>> /\ Failed(Calls(r)[1])) =>
                    /\ response[r].errorCode = "500"
                    /\ response[r].result = <<>>
                    /\ response[r].errorMessage =
                          "Primary API unavailable, and backup API not configured"
                    /\ Len(Calls(r)) = 1
                    /\ obs[r].at_return = "PRIMARY"

C2_Witness ==
    \E r \in Requests :
        /\ secondary_api.key = ""
        /\ Done(r)
        /\ Calls(r) # <<>>
        /\ Failed(Calls(r)[1])

RetryFailed(r) == Done(r) /\ Len(Calls(r)) = 2 /\ Failed(Calls(r)[2])

LeavesSecondaryOnlyByProbe ==
    (current_api = "SECONDARY" /\ current_api' # "SECONDARY") =>
        (probe_pc = "L122" /\ probe_pc' = "sleep")

\* C3: when the retry against the secondary fails too, the request ends with
\* the fatal "backup also unavailable" error after exactly two calls (primary,
\* then secondary), and the failover state is SECONDARY from the request's
\* switch on until the probe flips it: only a probe flip leaves SECONDARY.
C3_RetryFailureIsFatal ==
    /\ [](\A r \in Requests :
            RetryFailed(r) =>
                /\ response[r].errorCode = "500"
                /\ response[r].result = <<>>
                /\ response[r].errorMessage = "ERROR: Backup API is also unavailable."
                /\ Calls(r)[2].to = "SECONDARY"
                /\ obs[r].switched
                /\ obs[r].at_return = "SECONDARY" \/ obs[r].flipped)
    /\ [][LeavesSecondaryOnlyByProbe]_vars

C3_Witness ==
    \E r \in Requests :
        /\ RetryFailed(r)
        /\ current_api = "SECONDARY"
        /\ \E q \in Requests : q # r /\ obs[q].start = "SECONDARY" /\ Done(q)

C5_SecondaryRequestSparesPrimary ==
    \A r \in Requests :
        obs[r].start = "SECONDARY" =>
            /\ CallsTo(r, "PRIMARY") = {}
            /\ loc[r].active_api_config \in {"SECONDARY", "NONE"}

C5_Witness ==
    \E r, q \in Requests :
        /\ FailedOver(q)
        /\ obs[r].start = "SECONDARY"
        /\ Succeeded(r)
        /\ Calls(r) # <<>>

ReadStep(r) == pc[r] = "L131" /\ pc'[r] = "L135"

\* C6 as stated: once the probe's test call has succeeded while the state was
\* SECONDARY, every request that then reads the active backend selects the
\* primary endpoint.
C6_NextReadSelectsPrimary ==
    [][\A r \in Requests :
          (ReadStep(r) /\ recovery \in {"pending", "flipped"}) =>
              loc'[r].active_api_config = "PRIMARY"]_vars

\* C6 amended: once the probe's test call has succeeded while the state was
\* SECONDARY, the state stays SECONDARY until the probe's guarded block, which
\* sets it to PRIMARY; a request that reads the active backend after that
\* flip, and before any request switches again, selects the primary endpoint
\* (a request that reads between the test call and the flip still selects
\* the secondary).
C6_RecoveryAtProbeFlip ==
    /\ [](recovery = "pending" =>
            current_api = "SECONDARY" /\ probe_pc \in {"L121", "L122"})
    /\ [](recovery = "flipped" => current_api = "PRIMARY")
    /\ [][/\ (recovery = "pending" /\ recovery' # "pending") =>
                (probe_pc = "L122" /\ current_api' = "PRIMARY")
          /\ \A r \in Requests :
                (ReadStep(r) /\ recovery = "flipped") =>
                    loc'[r].active_api_config = "PRIMARY"]_vars

C6_Witness ==
    \E r, q \in Requests :
        /\ obs[q].switched
        /\ recovery = "flipped"
        /\ pc[r] = "L135"
        /\ loc[r].active_api_config = "PRIMARY"
        /\ ~obs[r].switched

\* C7: the state goes from SECONDARY to PRIMARY only in the probe's guarded
\* block (reached after a successful test call), and from PRIMARY to SECONDARY
\* only in the guarded switch of a request whose last call failed, with a
\* secondary credential configured.
C7_TransitionsOnlyByProbeAndSwitch ==
    [][/\ (current_api = "SECONDARY" /\ current_api' = "PRIMARY") =>
             /\ probe_pc = "L122" /\ probe_pc' = "sleep"
             /\ api_lock = ProbeThread
             /\ pc' = pc
       /\ (current_api = "PRIMARY" /\ current_api' = "SECONDARY") =>
             /\ \E r \in Requests :
                   /\ pc[r] = "L180" /\ pc'[r] = "L184"
                   /\ api_lock = r
                   /\ Calls(r) # <<>>
                   /\ Failed(Calls(r)[Len(Calls(r))])
             /\ secondary_api.key # ""
             /\ probe_pc' = probe_pc]_vars

C7_Witness ==
    \E r \in Requests :
        /\ obs[r].switched
        /\ obs[r].flipped
        /\ Succeeded(r)
        /\ current_api = "PRIMARY"

\* C8: a request makes at most two backend calls, and a second call only as
\* the one retry that follows a failed first call and the switch.
C8_AtMostTwoCalls ==
    \A r \in Requests :
        /\ Len(Calls(r)) <= 2
        /\ Len(Calls(r)) = 2 =>
              /\ Failed(Calls(r)[1])
              /\ obs[r].switched
              /\ Calls(r)[2].to = "SECONDARY"
        /\ (pc[r] \in {"L160", "L193"}) => Len(Calls(r)) < 2

C8_Witness ==
    \E r, q \in Requests :
        /\ r # q
        /\ Done(r) /\ Len(Calls(r)) = 2
        /\ Done(q) /\ Len(Calls(q)) = 2

\* C9: the backend identifier a successful request returns is the model of
\* the endpoint whose response produced the returned text.
C9_IdentifierNamesProducer ==
    \A r \in Requests :
        Succeeded(r) => response[r].api_used = ApiConf(Producer(r)).model

Updating(r) == pc[r] \in {"L215", "L220", "L221", "L221w"}

IsSuffix(h, l) == Len(h) <= Len(l) /\ h = SubSeq(l, Len(l) - Len(h) + 1, Len(l))

\* C10: whenever no request is in the middle of a window update, the window
\* holds at most 2 entries and they are the segments pushed last, in the order
\* pushed; the context block built for a request never lists more than 2
\* entries.
C10_WindowHoldsLastPushed ==
    /\ \A r \in Requests : Len(loc[r].messages.context) <= 2
    /\ (\A r \in Requests : ~Updating(r)) =>
          /\ Len(translation_history) <= 2
          /\ IsSuffix(translation_history, pushed)

\* The request has a call in flight (or is about to send it): the initial
\* call of line 160 or the retry of line 193, to loc.active_api_config
AboutToCall(r) == pc[r] \in {"L160", "L193"}

\* C11: whenever the endpoint a request is about to call has context off, the
\* messages built for that call contain no context block, for the initial call
\* and for the retry.
C11_NoContextToDisabledEndpoint ==
    \A r \in Requests :
        (AboutToCall(r) /\ ~ApiConf(loc[r].active_api_config).enable_context) =>
            loc[r].messages.context = <<>>

\* The words of the n segments endpoint b returns to request r
SegmentsOf(b, r, n) == [i \in 1..n |-> <<Word(b, r, i)>>]

ReturnStep(r) == pc[r] = "L226" /\ pc'[r] = "done"

C13_ProbeStopsWithoutKey ==
    /\ [](primary_api.key = "" => probe_pc \in {"sleep", "stopped"})
    /\ [][primary_api.key = "" =>
             /\ (probe_pc = "sleep" /\ probe_pc' # "sleep") => probe_pc' = "stopped"
             /\ probe_pc = "stopped" => probe_pc' = "stopped"
             /\ ~(current_api = "SECONDARY" /\ current_api' = "PRIMARY")]_vars

C13_Witness ==
    /\ primary_api.key = ""
    /\ probe_pc = "stopped"
    /\ current_api = "SECONDARY"
    /\ \E r \in Requests : Done(r) /\ obs[r].start = "SECONDARY"

\* C14: the step in which the probe's test call returns leaves the failover
\* state unchanged and sends the probe to its guarded block (success) or back
\* to sleep (failure, swallowed); the guarded block entered while the state is
\* PRIMARY leaves it PRIMARY; a probe whose primary has a credential is never
\* stopped.
C14_ProbeFrame ==
    /\ [](primary_api.key # "" => probe_pc \in {"sleep", "L119", "L121", "L122"})
    /\ [][/\ (probe_pc = "L119" /\ probe_pc' # "L119") =>
                /\ current_api' = current_api
                /\ probe_pc' \in {"L121", "sleep"}
                /\ UNCHANGED <<pc, loc, response, api_lock, translation_history>>
          /\ (probe_pc = "L122" /\ probe_pc' # "L122" /\ current_api = "PRIMARY") =>
                /\ current_api' = "PRIMARY"
                /\ probe_pc' = "sleep"
                /\ UNCHANGED <<pc, loc, response, translation_history>>]_vars

C14_Witness ==
    /\ probe_pc = "L122"
    /\ current_api = "PRIMARY"
    /\ \E r \in Requests : Done(r) /\ obs[r].switched /\ obs[r].flipped

Blank(text) == Strip(text) = <<>>

\* C15: a request whose posted text is missing, empty or blank is answered
\* with errorCode "400" and an empty result without entering handle_request
\* (no backend call, no guarded read), and the step that answers it leaves the
\* failover state, the lock, the context window and the request locals
\* unchanged; no other request is answered with "400".
C15_BlankTextIsRejected ==
    /\ [](\A r \in Requests :
            pc[r] # "idle" =>
                /\ Blank(obs[r].posted) <=> response[r].errorCode = "400"
                /\ Blank(obs[r].posted) =>
                      /\ Done(r)
                      /\ response[r].result = <<>>
                      /\ Calls(r) = <<>>
                      /\ obs[r].start = "NONE"
                      /\ api_lock # r)
    /\ [][\A r \in Requests :
             (pc[r] = "idle" /\ response'[r].errorCode = "400") =>
                 UNCHANGED <<current_api, api_lock, translation_history,
                             is_first_success, loc, probe_pc>>]_vars

C15_Witness ==
    \E r \in Requests :
        /\ response[r].errorCode = "400"
        /\ obs[r].posted = <<SP>>
        /\ translation_history # <<>>
        /\ current_api = "SECONDARY"

LastCall(r) == Calls(r)[Len(Calls(r))]

FatalMessages ==
    {"Primary API unavailable, and backup API not configured",
     "ERROR: Backup API is also unavailable.",
     "FATAL FAILURE: Invalid API key for backup model.",
     "SECONDARY API ERROR"}

\* C16: a request that entered handle_request ends either with errorCode "500",
\* one of the fatal messages, an empty result and no backend identifier, after
\* a failed last call, or with errorCode "0" and the repaired text of its
\* successful last call; a request whose last call failed never yields "0".
C16_AllOrNothing ==
    \A r \in Requests :
        (Done(r) /\ ~Blank(obs[r].posted)) =>
            /\ Calls(r) # <<>>
            /\ response[r].errorCode \in {"0", "500"}
            /\ response[r].errorCode = "500" <=> Failed(LastCall(r))
            /\ response[r].errorCode = "500" =>
                  /\ response[r].errorMessage \in FatalMessages
                  /\ response[r].result = <<>>
                  /\ response[r].api_used = ""
            /\ response[r].errorCode = "0" =>
                  /\ response[r].errorMessage = ""
                  /\ \E n \in 0..MaxSegs :
                        response[r].result = ResultOf(Producer(r), r, n)

C16_Witness ==
    \E r, q \in Requests :
        /\ Fatal(r)
        /\ response[r].errorMessage = "ERROR: Backup API is also unavailable."
        /\ Succeeded(q)
        /\ response[q].result # <<>>

Repaired == codec_out[1]

\* C17: repair is idempotent: for every text and every repair rule,
\* repair(repair(text)) = repair(text).
C17_RepairIsIdempotent ==
    Len(codec_out) = 2 => codec_out[2] = codec_out[1]

C17_Witness ==
    /\ Len(codec_out) = 2
    /\ codec_rule = "cloud"
    /\ codec_text = <<SAFE_SEPARATOR, SAFE_SEPARATOR, 10, LF, SAFE_SEPARATOR>>
    /\ codec_out[2] = <<SAFE_SEPARATOR, CR, LF, 10, CR, LF>>

HasSeparator(text) == \E i \in 1..Len(text) : text[i] = SAFE_SEPARATOR

\* C18 as stated: the dual-backend repair of a text that holds no separator
\* is the empty string.
C18_NoSeparatorRepairsToEmpty ==
    (codec_out # <<>> /\ codec_rule \in {"cloud", "formatter"} /\ ~HasSeparator(codec_text)) =>
        Repaired = <<>>

\* C18 amended: the dual-backend repair of a text that holds no separator is
\* the empty string only when the text is empty or blank; otherwise the whole
\* text, trimmed and with CR LF line ends, is rendered as the one segment:
\* SEP CR LF text CR LF.
C18_NoSeparatorIsOneSegment ==
    (codec_out # <<>> /\ codec_rule \in {"cloud", "formatter"} /\ ~HasSeparator(codec_text)) =>
        LET body == Strip(ReplaceCRCRLF(ReplaceLF(codec_text))) IN
        /\ Blank(codec_text) <=> Repaired = <<>>
        /\ ~Blank(codec_text) => Repaired = <<SAFE_SEPARATOR, CR, LF>> \o body \o <<CR, LF>>

\* "Hello.\nGoodbye." repairs to "//////\r\nHello.\r\nGoodbye.\r\n"
C18_Witness ==
    /\ codec_rule = "cloud"
    /\ codec_text = <<10, LF, 11>>
    /\ codec_out = <<<<SAFE_SEPARATOR, CR, LF, 10, CR, LF, 11, CR, LF>>>>

\* C19 as stated: repair returns a well-formed protocol text (leading and
\* trailing separator line, trimmed non-empty segments) unchanged.
C19_WellFormedUnchanged ==
    (codec_out # <<>> /\ codec_text \in WellFormedTexts) => Repaired = codec_text

\* C19 amended: repair returns a well-formed protocol text without its
\* trailing separator line, SEP CR LF seg1 CR LF SEP CR LF ... segN CR LF, and
\* returns a text of that form unchanged.
C19_WellFormedLosesClosingSeparator ==
    codec_text \in WellFormedTexts =>
        /\ codec_out # <<>> => Repaired = SubSeq(codec_text, 1, Len(codec_text) - 3)
        /\ Len(codec_out) = 2 => codec_out[2] = Repaired

\* "//////\r\nHi\r\n//////\r\n" repairs to "//////\r\nHi\r\n", which repairs to itself
C19_Witness ==
    /\ codec_rule = "cloud"
    /\ codec_text = WellFormed(<<<<10>>>>)
    /\ codec_out = <<<<SAFE_SEPARATOR, CR, LF, 10, CR, LF>>, <<SAFE_SEPARATOR, CR, LF, 10, CR, LF>>>>

\* The text of a response with the segments segs, as the codec renders it
Rendered(segs) == <<SAFE_SEPARATOR, CR, LF>> \o Join(segs) \o <<CR, LF>>

\* C20 as stated: the text a successful request returns is the empty string
\* or SEP CR LF + the segments joined by CR LF SEP CR LF + a trailing CR LF.
C20_ResultIsRendered ==
    \A r \in Requests :
        Succeeded(r) =>
            \/ response[r].result = <<>>
            \/ \E n \in 1..MaxSegs :
                  response[r].result = Rendered(SegmentsOf(Producer(r), r, n))

\* C20 amended: the text a successful request returns is the codec's repair of
\* the model output with the trailing CR LF stripped: the empty string, or
\* SEP CR LF + the segments joined by CR LF SEP CR LF, ending with the last
\* segment.
C20_ResultIsStrippedRepair ==
    /\ [](\A r \in Requests :
            Succeeded(r) =>
                \/ response[r].result = <<>>
                \/ \E n \in 1..MaxSegs :
                      /\ response[r].result \o <<CR, LF>> =
                            Rendered(SegmentsOf(Producer(r), r, n))
                      /\ response[r].result =
                            <<SAFE_SEPARATOR, CR, LF>> \o Join(SegmentsOf(Producer(r), r, n)))
    /\ [][\A r \in Requests :
             ReturnStep(r) =>
                 /\ response'[r].result = Strip(ValidateAndFixMortFormat(loc[r].translated_text))
                 /\ response'[r].result = <<>> <=> Segments(loc[r].translated_text) = <<>>]_vars

C20_Witness ==
    \E r \in Requests :
        /\ Succeeded(r)
        /\ response[r].result =
              <<SAFE_SEPARATOR, CR, LF>> \o Join(SegmentsOf(Producer(r), r, 2))

\* ------------------------------------------- single-backend mode (Local)
\* text.split("Previous Context:", 1): what precedes the first marker and what
\* follows it, each trimmed
RECURSIVE SplitPreviousContext(_, _)
SplitPreviousContext(before, s) ==
    IF s = <<>> THEN <<Strip(before)>>
    ELSE IF Head(s) = PREVIOUS_CONTEXT THEN <<Strip(before), Strip(Tail(s))>>
    ELSE SplitPreviousContext(Append(before, Head(s)), Tail(s))

\* LocalTranslator._prepare_messages: the user content
LocalPrepareMessages(injected_text, context_text) ==
    IF context_text # <<>>
    THEN <<SAFE_SEPARATOR, CR, LF, AT_TILDE>> \o context_text
         \o <<TILDE_AT, CR, LF, CR, LF, SAFE_SEPARATOR, CR, LF, AT_TILDE>> \o injected_text
    ELSE injected_text

\* The texts a client posts to request r in single-backend mode: blank, one
\* segment, two segments, a trailing article, a leading separator line, an
\* explicit "Previous Context:" part
LocalInputTexts(r) ==
    {<<SP>>,
     <<Word("PRIMARY", r, 0)>>,
     <<Word("PRIMARY", r, 0), LF, SAFE_SEPARATOR, LF, Word("PRIMARY", r, 1)>>,
     <<Word("PRIMARY", r, 0), SP, ARTICLE, CR, LF, SAFE_SEPARATOR, CR, LF, Word("PRIMARY", r, 1)>>,
     <<SAFE_SEPARATOR, CR, LF, Word("PRIMARY", r, 0)>>,
     <<Word("PRIMARY", r, 2), PREVIOUS_CONTEXT, SP, Word("PRIMARY", r, 0)>>}

Targets == {"en", "ru"}

\* The completion of a model that follows the prompt: every word translated,
\* separators and markers copied in place
TranslateWords(s) == [i \in 1..Len(s) |-> IF s[i] >= 100 THEN s[i] + 50 ELSE s[i]]

\* What the endpoint may answer to a user content: the faithful completion
\* (with a leading blank) or an empty one
LocalContents(user_content) == {<<SP>> \o TranslateWords(user_content), <<>>}

\* translation.py 76-83: the failure envelope of a raise out of handle_request
LocalFailure(message) ==
    [result |-> <<>>, errorCode |-> "500", errorMessage |-> message, api_used |-> ""]

\* translation.py 26-42: validate the posted text, then enter
\* LocalTranslator.handle_request
LocalTranslateRequest(r) ==
    /\ local_pc[r] = "idle"
    /\ \E text \in LocalInputTexts(r), target \in Targets :
         IF Strip(text) = <<>>
         THEN /\ response' = [response EXCEPT ![r] =
                    [result |-> <<>>, errorCode |-> "400",
                     errorMessage |-> "No text to translate.", api_used |-> ""]]
              /\ local_pc' = [local_pc EXCEPT ![r] = "done"]
              /\ UNCHANGED local_loc
         ELSE /\ local_loc' = [local_loc EXCEPT ![r].text_to_translate = text,
                                                ![r].target = target]
              /\ local_pc' = [local_pc EXCEPT ![r] = "M102"]
              /\ UNCHANGED response
    /\ UNCHANGED <<config, codec, local_config, last_source_segment, is_warmup_done,
                   local_is_first_success, current_api, api_lock, translation_history,
                   is_first_success, pc, loc, probe_pc, obs, pushed, recovery>>

\* line 102, _warmup_model: an Ollama host is pinged once (a failed ping is
\* logged and tried again by the next request), any other host needs none
WarmupModel(r) ==
    /\ local_pc[r] = "M102"
    /\ IF is_warmup_done THEN UNCHANGED is_warmup_done
       ELSE IF local_config.ollama THEN \E sent \in BOOLEAN : is_warmup_done' = sent
       ELSE is_warmup_done' = TRUE
    /\ local_pc' = [local_pc EXCEPT ![r] = "M104"]
    /\ UNCHANGED <<config, codec, local_config, last_source_segment, local_is_first_success,
                   local_loc, response, current_api, api_lock, translation_history,
                   is_first_success, pc, loc, probe_pc, obs, pushed, recovery>>

\* lines 104-119: the context (an explicit "Previous Context:" part, else the
\* stored last source segment) and the injected text
ReadContext(r) ==
    /\ local_pc[r] = "M104"
    /\ LET text == Strip(local_loc[r].text_to_translate)
           parts == SplitPreviousContext(<<>>, text)
           explicit == local_config.enable_context /\ Len(parts) = 2
           context_text == IF explicit THEN parts[1]
                           ELSE IF local_config.enable_context THEN last_source_segment
                           ELSE <<>>
           text_to_translate == IF explicit THEN parts[2] ELSE text
           processed_text == ProcessProblematicArticles(text_to_translate, local_loc[r].target)
       IN local_loc' = [local_loc EXCEPT
              ![r].text_to_translate = text_to_translate,
              ![r].context_text = context_text,
              ![r].injected_text = InjectedText(processed_text, context_text)]
    /\ local_pc' = [local_pc EXCEPT ![r] = "M121"]
    /\ UNCHANGED <<config, codec, local_config, last_source_segment, is_warmup_done,
                   local_is_first_success, response, current_api, api_lock,
                   translation_history, is_first_success, pc, loc, probe_pc, obs, pushed,
                   recovery>>

\* lines 121-124: store the last source segment (context enabled), build the
\* messages
StoreLastSourceSegment(r) ==
    /\ local_pc[r] = "M121"
    /\ IF local_config.enable_context
       THEN last_source_segment' = LastSourceSegment(local_loc[r].injected_text)
       ELSE UNCHANGED last_source_segment
    /\ local_loc' = [local_loc EXCEPT ![r].messages =
           LocalPrepareMessages(local_loc[r].injected_text, local_loc[r].context_text)]
    /\ local_pc' = [local_pc EXCEPT ![r] = "M130"]
    /\ UNCHANGED <<config, codec, local_config, is_warmup_done, local_is_first_success,
                   response, current_api, api_lock, translation_history, is_first_success,
                   pc, loc, probe_pc, obs, pushed, recovery>>

\* lines 129-149 and translation.py 52-66, 76-83: the call; a response is
\* processed, cleaned and returned, an error is raised to the route
LocalSendRequest(r) ==
    /\ local_pc[r] = "M130"
    /\ \/ \E content \in LocalContents(local_loc[r].messages) :
            /\ local_is_first_success' = TRUE
            /\ response' = [response EXCEPT ![r] =
                   [result |-> LocalFinalText(ProcessResponse(content),
                                              local_loc[r].context_text),
                    errorCode |-> "0", errorMessage |-> "",
                    api_used |-> local_config.model]]
       \/ /\ local_is_first_success' = FALSE
          /\ response' = [response EXCEPT ![r] =
                 LocalFailure("Network error during Local API request")]
    /\ local_pc' = [local_pc EXCEPT ![r] = "done"]
    /\ UNCHANGED <<config, codec, local_config, last_source_segment, is_warmup_done,
                   local_loc, current_api, api_lock, translation_history, is_first_success,
                   pc, loc, probe_pc, obs, pushed, recovery>>

\* app.py with ACTIVE_MODE = "Local": the local configuration varies, the
\* dual-backend translator is built and left alone
LocalInit ==
    /\ local_config \in [model : {"m0"}, enable_context : BOOLEAN, ollama : BOOLEAN]
    /\ LocalIdle
    /\ primary_api = [key |-> "k1", model |-> "m1", enable_context |-> TRUE]
    /\ secondary_api = [key |-> "k2", model |-> "m2", enable_context |-> TRUE]
    /\ current_api = "PRIMARY"
    /\ api_lock = Unlocked
    /\ translation_history = <<>>
    /\ is_first_success = FALSE
    /\ pc = [r \in Requests |-> "idle"]
    /\ loc = [r \in Requests |-> InitLocals]
    /\ response = [r \in Requests |-> NoResponse]
    /\ probe_pc = "sleep"
    /\ obs = [r \in Requests |-> InitObs]
    /\ pushed = <<>>
    /\ recovery = "none"
    /\ codec_rule = "none"
    /\ codec_text = <<>>
    /\ codec_out = <<>>

LocalNext ==
    \E r \in Requests :
        \/ LocalTranslateRequest(r)
        \/ WarmupModel(r)
        \/ ReadContext(r)
        \/ StoreLastSourceSegment(r)
        \/ LocalSendRequest(r)

LocalSpec == LocalInit /\ [][LocalNext]_vars

\* C21: in single-backend mode with context enabled, last_source_segment
\* changes only in the step of a request whose backend call has just
\* succeeded, so a request whose call fails leaves it as it was.
C21_StoredOnlyAfterSuccess ==
    [][last_source_segment' # last_source_segment =>
          \E r \in Requests :
              /\ local_pc[r] = "M130"
              /\ local_pc'[r] = "done"
              /\ response'[r].errorCode = "0"]_vars

\* C22: a 2xx response without completion text is parsed to the empty string
\* and handled as a successful call: no request ever catches an error raised
\* by the parsing of a response, so none takes the failure branch (switch to
\* the secondary endpoint, or fatal error) because of one.
C22_EmptyCompletionIsSuccess ==
    \A r \in Requests :
        /\ loc[r].e # "IndexError"
        /\ obs[r].raised_on # "IndexError"

\* The step of request r reads or writes self.current_api: the read of line
\* 131, the branch of line 150, the branch of line 168, the write of line 180
AccessesActive(r) == pc[r] \in {"L131", "L150", "L165", "L180"} /\ pc'[r] # pc[r]

\* The probe's step reads or writes self.current_api: lines 122-123
ProbeAccessesActive == probe_pc = "L122" /\ probe_pc' # probe_pc

\* C23: every step of a request thread or of the probe that reads or writes
\* the active-backend field is taken while that thread holds the lock; so the
\* endpoint a request's messages are built for and the value its failure
\* branch is decided on are the value its guarded read returned.
C23_AccessesAreGuarded ==
    /\ [][/\ \A r \in Requests : AccessesActive(r) => api_lock = r
          /\ ProbeAccessesActive => api_lock = ProbeThread]_vars
    /\ [](\A r \in Requests :
            /\ pc[r] \in {"L151", "L160"} =>
                  loc[r].messages.prepared_for = obs[r].start
            /\ obs[r].at_failure # "NONE" => obs[r].at_failure = obs[r].start)

\* The probe's test call of line 119 is in flight
ProbeCalling == probe_pc = "L119"

\* C24: no thread holds the lock while a backend call of its own is in
\* flight: a request holds it only at the read of line 131 or the write of
\* line 180, the probe only at lines 122-123, so the holder's next step is
\* never a network call.
C24_NoLockAcrossCall ==
    /\ \A r \in Requests :
          /\ AboutToCall(r) => api_lock # r
          /\ api_lock = r => pc[r] \in {"L131", "L180"}
    /\ ProbeCalling => api_lock # ProbeThread
    /\ api_lock = ProbeThread => probe_pc = "L122"

\* A request's call and the probe's test call are in flight while another
\* request holds the lock for its read
C24_Witness ==
    \E r, q \in Requests :
        /\ AboutToCall(r)
        /\ ProbeCalling
        /\ api_lock = q
        /\ pc[q] = "L131"

\* C25: every step that changes the context window is taken by a request
\* thread that holds the lock, and the window holds at most 2 entries in every
\* state, the states in the middle of an update included.
C25_WindowUpdatesAreGuarded ==
    /\ [][translation_history' # translation_history =>
             \E r \in Requests : pc'[r] # pc[r] /\ api_lock = r]_vars
    /\ [](Len(translation_history) <= 2)

\* ------------------------------------------------ threads that keep running
\* The positions of a request thread
Labels ==
    {"idle", "L130", "L131", "L135", "L150", "L151", "L160", "L165", "L179", "L180",
     "L184", "L192", "L193", "L212", "L215", "L220", "L221", "L221w", "L226", "done"}

\* Request r is at a 'with self.api_lock' (lines 130, 179), asking for the lock
Waiting(r) == pc[r] \in {"L130", "L179"}

\* Request r is inside handle_request and not asking for the lock: its next
\* statement, or the return of its backend call, can be executed
Running(r) == pc[r] \notin {"idle", "done"} /\ ~Waiting(r)

\* Request r executes its next statement: it leaves its position
Executes(r) ==
    /\ Running(r)
    /\ \E l \in Labels \ {pc[r]} : pc' = [pc EXCEPT ![r] = l]

\* Every step of the probe thread's loop
ProbeProgress == ProbeTick \/ ProbeSendRequest \/ ProbeAcquire \/ ProbeFlip

\* The interpreter runs every thread that can run and every backend call
\* returns (requests.post has a timeout): a request that is not asking for the
\* lock executes its next statement, the probe loops.  A thread asking for the
\* lock gets it: each holder releases it after one comparison or assignment
\* and then sleeps, calls a backend or returns before it asks again.
Fairness ==
    /\ \A r \in Requests :
          /\ WF_pc(Executes(r))
          /\ SF_vars(AcquireForRead(r))
          /\ SF_vars(AcquireForSwitch(r))
    /\ WF_vars(ProbeProgress)
    /\ SF_vars(ProbeAcquire)

\* The configurations with the context window on for the primary endpoint and
\* off for the secondary, every combination of keys
FairInit == Init /\ primary_api.enable_context /\ ~secondary_api.enable_context

FairSpec == FairInit /\ [][Next]_vars /\ Fairness

\* C26: every request that entered handle_request eventually completes, with
\* a result or a fatal error, whatever the other request and the probe do.
C26_EveryRequestCompletes ==
    \A r \in Requests : (pc[r] # "idle") ~> Done(r)

\* Both requests have completed, one after a wait for the lock held by the
\* other side's switch: one failed over, the other ended in a fatal error
C26_Witness ==
    \E r, q \in Requests :
        /\ FailedOver(r)
        /\ Fatal(q)
        /\ obs[q].start = "SECONDARY"

\* C27: a request makes a second call only if its first call went to the
\* primary endpoint, the two calls of a request go to different endpoints, and
\* a request whose first call went to the primary and failed, with a key
\* configured for the secondary, has made the retry by the time it is done.
C27_RetryOnlyAfterPrimary ==
    \A r \in Requests :
        /\ Len(Calls(r)) <= 2
        /\ Len(Calls(r)) = 2 =>
              /\ Calls(r)[1].to = "PRIMARY"
              /\ Calls(r)[2].to = "SECONDARY"
        /\ ( /\ Done(r)
             /\ Len(Calls(r)) >= 1
             /\ Calls(r)[1].to = "PRIMARY"
             /\ Failed(Calls(r)[1])
             /\ secondary_api.key # "" ) => Len(Calls(r)) = 2

\* ------------------------------------------------- a stream of requests
\* translation.py 17-18: the server answers requests for as long as it runs;
\* a thread that has answered is free to serve the next request
NextRequest(r) ==
    /\ pc[r] = "done"
    /\ pc' = [pc EXCEPT ![r] = "idle"]
    /\ response' = [response EXCEPT ![r] = NoResponse]
    /\ obs' = [obs EXCEPT ![r] = InitObs]
    /\ UNCHANGED <<config, codec, local, current_api, api_lock, translation_history,
                   is_first_success, loc, probe_pc, pushed, recovery>>

\* Both endpoints have a key and the context window off
StreamInit ==
    /\ Init
    /\ primary_api.key # "" /\ secondary_api.key # ""
    /\ ~primary_api.enable_context /\ ~secondary_api.enable_context

\* The steps of the request threads and of the probe with the context window
\* off (lines 214-221 are not executed), request after request
StreamNext ==
    \/ \E r \in Requests :
         \/ TranslateRequest(r)
         \/ AcquireForRead(r)
         \/ ReadActive(r)
         \/ ResetHistory(r)
         \/ ChooseMessages(r)
         \/ BuildMessages(r)
         \/ SendRequest(r)
         \/ HandleFailure(r)
         \/ AcquireForSwitch(r)
         \/ SwitchToSecondary(r)
         \/ RetryResetHistory(r)
         \/ RetryBuildMessages(r)
         \/ RetrySendRequest(r)
         \/ ClearHistory(r)
         \/ Return(r)
         \/ NextRequest(r)
    \/ ProbeTick
    \/ ProbeSendRequest
    \/ ProbeAcquire
    \/ ProbeFlip

StreamSpec == StreamInit /\ [][StreamNext]_vars /\ Fairness

\* A call to the primary endpoint fails: a request's call of line 160 sent
\* to the primary, or the probe's test call of line 119
PrimaryCallFails ==
    \/ \E r \in Requests :
          /\ pc[r] = "L160"
          /\ loc[r].active_api_config = "PRIMARY"
          /\ pc'[r] = "L165"
    \/ probe_pc = "L119" /\ probe_pc' = "sleep"

\* C28: if the primary endpoint has a key and from some point on no call to
\* the primary fails, then, with every thread scheduled fairly, from some
\* point on the failover state is PRIMARY for good.
C28_EventuallyPrimaryForGood ==
    (primary_api.key # "" /\ <>[][~PrimaryCallFails]_vars)
        => <>[](current_api = "PRIMARY")

\* The statements after the try block (lines 206-227): only a request whose
\* call succeeded reaches them
AfterCall == {"L212", "L215", "L220", "L221", "L221w", "L226"}

\* The step of request r changes the context window
ChangesWindow(r) == pc'[r] # pc[r] /\ translation_history' # translation_history

\* C29: a request that ends in a fatal error adds nothing to the context
\* window.  Every request step that changes the window before the call has
\* succeeded empties it, and is taken for an endpoint with context off; a
\* request past its successful call never ends in a fatal error; and the step
\* that raises leaves the window as it is.
C29_FatalRequestOnlyClears ==
    [][\A r \in Requests :
          /\ (ChangesWindow(r) /\ pc[r] \notin AfterCall) =>
                /\ translation_history' = <<>>
                /\ ~ApiConf(loc'[r].active_api_config).enable_context
          /\ pc[r] \in AfterCall =>
                /\ pc'[r] \in AfterCall \cup {"done"}
                /\ response'[r].errorCode # "500"
          /\ (pc[r] # "done" /\ Fatal(r)') => ~ChangesWindow(r)]_vars

\* A request has ended in a fatal error after its retry failed, and the window
\* still holds the segment another request pushed
C29_Witness ==
    \E r, q \in Requests :
        /\ RetryFailed(r)
        /\ Fatal(r)
        /\ Succeeded(q)
        /\ translation_history # <<>>

====
